---- MODULE Spec2Model ----
(***************************************************************************)
(* Transport and session core of the rs-qq client:                         *)
(*   - request/response correlation (Client::send_and_wait, the            *)
(*     packet_promises map and its oneshot reply channels),                *)
(*   - the heartbeat loop (Client::do_heartbeat),                          *)
(*   - the message sync loop (Client::sync_all_message),                   *)
(*   - fire-and-forget sends (Client::send) and named waits                *)
(*     (Client::wait_packet, the packet_waiters map),                      *)
(*   - the sequence allocators (Client::next_seq and its siblings),        *)
(*   - token persistence (Client::gen_token, Client::load_token).          *)
(* Each await of an async fn is a point where other tasks may run, so an   *)
(* async fn is modelled as one action per stretch of code between awaits.  *)
(***************************************************************************)
EXTENDS Integers, Sequences, FiniteSets, TLC

\* ------------------------------------------------------------------ bounds
\* Number of concurrent application calls of send_and_wait (ids 1..NCalls).
NCalls == 2
\* Most frames the outbound channel holds in the model (the channel itself
\* is unbounded).
MaxOut == 2
\* Most iterations of the sync loop: the server's response to the MaxIter-th
\* request declares Stop.
MaxIter == 3
\* Most messages in one sync response.
MaxMsgs == 2
\* Most allocations observed in one sequence domain.
MaxAlloc == 2
\* Longest credential field, in bytes.
MaxFieldLen == 1

\* ------------------------------------------------------------- value sets
\* The heartbeat task's call of send_and_wait has id HB; application calls
\* have ids 1..NCalls.
HB == 0
Calls == 1..NCalls
AllCalls == {HB} \cup Calls

\* Packet.seq_id values (a u16 in the code; two values suffice to have both
\* distinct and equal sequence ids).
Seqs == {1, 2}
\* Packet.command_name values.
Cmds == {"Heartbeat.Alive", "MessageSvc.PbGetMsg"}
\* Packet.body values of inbound packets.
Bodies == {"reply"}

Packets == [seq_id : Seqs, command_name : Cmds, body : Bodies]
NoPkt == [seq_id |-> 0, command_name |-> "", body |-> ""]

\* Request packets the application hands to send_and_wait, and the packets
\* build_heartbeat_packet produces: the sequence id is whatever the builder
\* took from next_seq.
Requests == [seq_id : Seqs, command_name : {"MessageSvc.PbGetMsg"}, body : {"request"}]
HeartbeatPackets == [seq_id : Seqs, command_name : {"Heartbeat.Alive"}, body : {"request"}]

VARIABLES
    \* ---- correlation subsystem and send pipeline
    packet_promises,  \* seq_id -> id of the call whose oneshot sender is stored
    pc,               \* position of each send_and_wait call
    pkt,              \* the packet each call was given
    chan,             \* each call's oneshot channel
    result,           \* what each call last returned
    out_pkt,          \* frames on the outbound channel (out_pkt_sender)
    out_open,         \* whether the outbound channel's receiver is alive
    inbound           \* the decoded packet the inbound dispatch is handling

VARIABLES
    \* ---- heartbeat engine
    hb,                 \* position of the do_heartbeat task
    times,              \* its local success counter
    heartbeat_enabled,  \* Client.heartbeat_enabled
    online,             \* Client.online
    connected           \* Client.connected

VARIABLES
    \* ---- message sync engine
    sync_pc,             \* position of the sync_all_message call
    sync_flag,           \* its local sync_flag
    msgs,                \* its local accumulator
    resp,                \* the response of the current iteration
    ret,                 \* what sync_all_message returned
    sync_cookie,         \* transport.sig.sync_cookie
    pub_account_cookie,  \* transport.sig.pub_account_cookie
    req,                 \* the latest sync request sent to the server
    nreq,                \* number of sync requests sent
    ack,                 \* the delete_message request of this iteration
    served               \* every message the server has put in a response

VARIABLES
    \* ---- fire-and-forget sends
    send_result       \* what each caller's send last returned

VARIABLES
    \* ---- named waits
    packet_waiters,   \* command name -> id of the wait whose sender is stored
    wpc,              \* position of each wait_packet call
    wname,            \* the name each wait was given
    wchan,            \* each wait's oneshot channel
    wresult           \* what each wait returned

VARIABLES
    \* ---- sequence allocators
    counter,          \* the atomic counter of each sequence domain
    origin,           \* each counter's value when the observation starts
    allocated         \* the values each domain has returned, in order

VARIABLES
    \* ---- token persistence
    uin,                    \* Client.uin
    sig,                    \* the persisted fields of transport.sig
    wt_session_ticket_key,  \* oicq_codec.wt_session_ticket_key
    transport_lock,         \* holders of the RwLock around transport
    codec_lock,             \* holders of the RwLock around oicq_codec
    gen_pc,                 \* position of the gen_token call
    token,                  \* the BytesMut gen_token fills and returns
    load_pc,                \* position of the load_token call
    buf,                    \* what load_token has not yet read of its input
    input,                  \* the bytes load_token was given
    initial                 \* the credentials at the start of the run

corrVars == <<packet_promises, pc, pkt, chan, result, out_pkt, out_open, inbound>>
hbVars == <<hb, times, heartbeat_enabled, online, connected>>
syncVars == <<sync_pc, sync_flag, msgs, resp, ret, sync_cookie,
              pub_account_cookie, req, nreq, ack, served>>

sendVars == <<send_result>>
waitVars == <<packet_waiters, wpc, wname, wchan, wresult>>
seqVars == <<counter, origin, allocated>>
tokVars == <<uin, sig, wt_session_ticket_key, transport_lock, codec_lock,
             gen_pc, token, load_pc, buf, input, initial>>
extVars == <<sendVars, waitVars, seqVars, tokVars>>

vars == <<corrVars, hbVars, syncVars, extVars>>

\* ------------------------------------------------ oneshot reply channels
ChanEmpty == [state |-> "empty", value |-> NoPkt]
ChanClosed == [state |-> "closed", value |-> NoPkt]
ChanSent(p) == [state |-> "sent", value |-> p]

NoResult == [kind |-> "none", value |-> NoPkt]
Ok(p) == [kind |-> "Ok", value |-> p]
Err(k) == [kind |-> k, value |-> NoPkt]

\* Whether call c still holds the receiving half of its oneshot channel:
\* from oneshot::channel() until the timeout future is dropped.
ReceiverAlive(c) == pc[c] \in {"registered", "sendfailed", "waiting"}

\* Dropping the sender stored for call d without sending: the receiver
\* completes with RecvError.
DropSender(ch, d) ==
    IF ch[d].state = "empty" THEN [ch EXCEPT ![d] = ChanClosed] ELSE ch

\* Variant: the sender is not stored before the frame is sent.
MapInsertDeferred(m, seq, c) == m

\* HashMap::insert(seq, sender): an entry already stored under seq is
\* replaced and its sender dropped.
MapInsert(m, seq, c) == [s \in (DOMAIN m) \cup {seq} |-> IF s = seq THEN c ELSE m[s]]

\* HashMap::remove(&seq).
MapRemove(m, seq) == [s \in (DOMAIN m) \ {seq} |-> m[s]]

\* Packet::check_command_name(&expect).
check_command_name(p, expect) ==
    IF p.command_name = expect THEN Ok(p) ELSE Err("CommandMismatch")

\* Transport::encode_packet(pkt): the frame carries the packet's sequence id
\* and command name.
encode_packet(p) == [frame_seq |-> p.seq_id, frame_cmd |-> p.command_name]

\* ----------------------------------------------------- send_and_wait(pkt)
\* Lines 107-113: take seq and expect from the packet, create the oneshot
\* channel and insert its sender under seq.
Register(c, p) ==
    /\ pc[c] = "start"
    /\ pkt' = [pkt EXCEPT ![c] = p]
    /\ chan' = IF p.seq_id \in DOMAIN packet_promises
                  /\ packet_promises[p.seq_id] # c
               THEN DropSender([chan EXCEPT ![c] = ChanEmpty],
                               packet_promises[p.seq_id])
               ELSE [chan EXCEPT ![c] = ChanEmpty]
    /\ packet_promises' = MapInsert(packet_promises, p.seq_id, c)
    /\ pc' = [pc EXCEPT ![c] = "registered"]
    /\ UNCHANGED <<result, out_pkt, out_open, inbound>>

\* Lines 114-117, Ok branch: the frame is placed on the outbound channel.
Enqueue(c) ==
    /\ pc[c] = "registered"
    /\ out_open
    /\ Len(out_pkt) < MaxOut
    /\ out_pkt' = Append(out_pkt, encode_packet(pkt[c]))
    /\ pc' = [pc EXCEPT ![c] = "waiting"]
    /\ UNCHANGED <<packet_promises, pkt, chan, result, out_open, inbound>>

\* Lines 114-117, Err branch: the outbound channel is closed.
EnqueueFail(c) ==
    /\ pc[c] = "registered"
    /\ ~out_open
    /\ pc' = [pc EXCEPT ![c] = "sendfailed"]
    /\ UNCHANGED <<packet_promises, pkt, chan, result, out_pkt, out_open, inbound>>

\* Variant: the entry is left in the map.
RemoveEntrySkipped(seq) == UNCHANGED <<packet_promises, chan>>

\* Removing the entry stored under seq drops whatever sender it holds.
RemoveEntry(seq) ==
    /\ packet_promises' = MapRemove(packet_promises, seq)
    /\ chan' = IF seq \in DOMAIN packet_promises
               THEN DropSender(chan, packet_promises[seq])
               ELSE chan

\* Variant: Network is returned with the entry left in the map.
SendFailCleanupLeaky(c) ==
    /\ pc[c] = "sendfailed"
    /\ result' = [result EXCEPT ![c] = Err("Network")]
    /\ pc' = [pc EXCEPT ![c] = "done"]
    /\ UNCHANGED <<packet_promises, chan, pkt, out_pkt, out_open, inbound>>

\* Lines 118-120: remove the entry under seq and return Network.
SendFailCleanup(c) ==
    /\ pc[c] = "sendfailed"
    /\ RemoveEntry(pkt[c].seq_id)
    /\ result' = [result EXCEPT ![c] = Err("Network")]
    /\ pc' = [pc EXCEPT ![c] = "done"]
    /\ UNCHANGED <<pkt, out_pkt, out_open, inbound>>

\* Variant: the reply is returned without validating its command name.
ReplyResultUnchecked(c, p) == Ok(p)

\* Variant: the request packet is validated and returned in place of the
\* reply.
ReplyResultOfRequest(c, p) == check_command_name(pkt[c], pkt[c].command_name)

\* What the call returns once its receiver has yielded packet p (line 123).
ReplyResult(c, p) == check_command_name(p, pkt[c].command_name)

\* Lines 122-123: the receiver yields a packet before the timeout.
ReceiveReply(c) ==
    /\ pc[c] = "waiting"
    /\ chan[c].state = "sent"
    /\ result' = [result EXCEPT ![c] = ReplyResult(c, chan[c].value)]
    /\ pc' = [pc EXCEPT ![c] = "done"]
    /\ UNCHANGED <<packet_promises, pkt, chan, out_pkt, out_open, inbound>>

\* Lines 122-123: the receiver yields RecvError (its sender was dropped) and
\* p.unwrap() panics.
ReceivePanic(c) ==
    /\ pc[c] = "waiting"
    /\ chan[c].state = "closed"
    /\ pc' = [pc EXCEPT ![c] = "panicked"]
    /\ UNCHANGED <<packet_promises, pkt, chan, result, out_pkt, out_open, inbound>>

\* Variant: the timer ends the wait even when a reply is already there.
TimerFiresRegardless(c) == TRUE

\* Whether the 15 second timer may end the wait of call c: tokio's timeout
\* polls the receiver first, so the timer wins only while nothing was sent.
TimerMayFire(c) == chan[c].state = "empty"

\* Lines 122, 124: the timeout elapses; the receiver is dropped with the
\* timeout future.
TimeoutElapsed(c) ==
    /\ pc[c] = "waiting"
    /\ TimerMayFire(c)
    /\ pc' = [pc EXCEPT ![c] = "timedout"]
    /\ UNCHANGED <<packet_promises, pkt, chan, result, out_pkt, out_open, inbound>>

\* What the Err(_) arm of the match returns (line 126).
TimeoutResult == Err("Timeout")

\* Variant: Timeout is returned with the entry left in the map.
TimeoutCleanupLeaky(c) ==
    /\ pc[c] = "timedout"
    /\ result' = [result EXCEPT ![c] = TimeoutResult]
    /\ pc' = [pc EXCEPT ![c] = "done"]
    /\ UNCHANGED <<packet_promises, chan, pkt, out_pkt, out_open, inbound>>

\* Lines 125-126: remove the entry under seq and return Timeout.
TimeoutCleanup(c) ==
    /\ pc[c] = "timedout"
    /\ RemoveEntry(pkt[c].seq_id)
    /\ result' = [result EXCEPT ![c] = TimeoutResult]
    /\ pc' = [pc EXCEPT ![c] = "done"]
    /\ UNCHANGED <<pkt, out_pkt, out_open, inbound>>

\* ------------------------------------------------------------ environment
\* The transport takes the next frame off the outbound channel.
NetTransmit ==
    /\ out_pkt # <<>>
    /\ out_pkt' = Tail(out_pkt)
    /\ UNCHANGED <<packet_promises, pc, pkt, chan, result, out_open, inbound>>

\* The transport's event loop ends and drops the outbound receiver.
NetClose ==
    /\ out_open
    /\ out_open' = FALSE
    /\ out_pkt' = <<>>
    /\ UNCHANGED <<packet_promises, pc, pkt, chan, result, inbound>>

\* The transport hands a decoded packet to the inbound dispatch.
Arrive(p) ==
    /\ inbound = NoPkt
    /\ inbound' = p
    /\ UNCHANGED <<packet_promises, pc, pkt, chan, result, out_pkt, out_open>>

\* oneshot Sender::send(p) to call c: the value is stored unless the
\* receiver was dropped, in which case the packet is lost.
SenderSend(ch, c, p) ==
    IF ReceiverAlive(c) /\ ch[c].state = "empty"
    THEN [ch EXCEPT ![c] = ChanSent(p)]
    ELSE ch

\* resolve(seq, packet) of the inbound dispatch: if an entry is stored under
\* the packet's seq it is removed and the packet sent on its sender;
\* otherwise the packet is dropped.
Resolve ==
    /\ inbound # NoPkt
    /\ inbound' = NoPkt
    /\ IF inbound.seq_id \in DOMAIN packet_promises
       THEN /\ packet_promises' = MapRemove(packet_promises, inbound.seq_id)
            /\ chan' = SenderSend(chan, packet_promises[inbound.seq_id], inbound)
       ELSE UNCHANGED <<packet_promises, chan>>
    /\ UNCHANGED <<pc, pkt, result, out_pkt, out_open>>

\* ---------------------------------------------------------- do_heartbeat
\* Number of successful heartbeats after which the session is re-registered.
ReRegisterAfter == 7

\* Variant: re-registration one success early.
ReRegisterDueEarly(n) == n >= ReRegisterAfter - 1

\* Line 162: whether the success counter calls for re-registration.
ReRegisterDue(n) == n >= ReRegisterAfter

\* The call frame of the heartbeat's send_and_wait is gone once it returned;
\* result keeps the value the match at line 153 was given.
ForgetCall(c) ==
    /\ pc' = [pc EXCEPT ![c] = "start"]
    /\ pkt' = [pkt EXCEPT ![c] = NoPkt]
    /\ chan' = [chan EXCEPT ![c] = ChanEmpty]
    /\ result' = result

\* Lines 149-150: the task starts.
HbStart ==
    /\ hb = "idle"
    /\ heartbeat_enabled' = TRUE
    /\ times' = 0
    /\ hb' = "check"
    /\ UNCHANGED <<online, connected>>

\* Variant: the loop body is entered whatever the online flag says.
HbEnterUnconditional ==
    /\ hb = "check"
    /\ hb' = "sleep"
    /\ UNCHANGED <<times, heartbeat_enabled, online, connected>>

\* Line 151, condition true: enter the loop body and sleep.
HbEnter ==
    /\ hb = "check"
    /\ online
    /\ hb' = "sleep"
    /\ UNCHANGED <<times, heartbeat_enabled, online, connected>>

\* Lines 151 and 171, condition false: leave the loop.
HbExit ==
    /\ hb = "check"
    /\ ~online
    /\ heartbeat_enabled' = FALSE
    /\ hb' = "stopped"
    /\ UNCHANGED <<times, online, connected>>

\* Lines 152-155: the 30 second sleep is over; the heartbeat packet is built
\* and send_and_wait is entered (up to its insert into packet_promises).
HbSend(p) ==
    /\ hb = "sleep"
    /\ Register(HB, p)
    /\ hb' = "call"
    /\ UNCHANGED <<times, heartbeat_enabled, online, connected>>

\* Lines 160-161: the counter after one more success.
CountSuccess(n) == n + 1

\* Lines 157-159: the counter after a failure.
CountFailure(n) == n

\* Variant: a failed heartbeat breaks out of the loop.
OnFailureBreak == "stopped"

\* Line 158: where a failed heartbeat goes on (continue: the loop condition).
OnFailure == "check"

\* Lines 156-168: send_and_wait returned. Err: continue. Ok: count the
\* success and, when re-registration is due, go on to register_client.
HbResult ==
    /\ hb = "call"
    /\ pc[HB] = "done"
    /\ IF result[HB].kind = "Ok"
       THEN /\ times' = CountSuccess(times)
            /\ hb' = IF ReRegisterDue(times') THEN "register" ELSE "check"
       ELSE /\ times' = CountFailure(times)
            /\ hb' = OnFailure
    /\ ForgetCall(HB)
    /\ UNCHANGED <<packet_promises, out_pkt, out_open, inbound>>
    /\ UNCHANGED <<heartbeat_enabled, online, connected>>

\* Lines 163-166, register_client succeeded: reset the counter.
HbRegisterOk ==
    /\ hb = "register"
    /\ times' = 0
    /\ hb' = "check"
    /\ UNCHANGED <<heartbeat_enabled, online, connected>>

\* Lines 163-165 and 171, register_client failed: break out of the loop.
HbRegisterFail ==
    /\ hb = "register"
    /\ heartbeat_enabled' = FALSE
    /\ hb' = "stopped"
    /\ UNCHANGED <<times, online, connected>>

\* The rest of the client stores into the connection flags (login,
\* disconnect, reconnect).
SetOnline(b) ==
    /\ online # b
    /\ online' = b
    /\ UNCHANGED <<hb, times, heartbeat_enabled, connected>>

SetConnected(b) ==
    /\ connected # b
    /\ connected' = b
    /\ UNCHANGED <<hb, times, heartbeat_enabled, online>>

\* ------------------------------------------------------ sync_all_message
SYNC_START == 0
SYNC_STOP == 2

\* MessageSyncResponse.sync_flag and msg_rsp_type values the server sends.
SyncFlags == {0, 1, 2}
RspTypes == {0, 1, 2, 3}

\* Option<Vec<u8>> cookies of a response and the stored Bytes.
None == [some |-> FALSE, value |-> <<>>]
Some(v) == [some |-> TRUE, value |-> v]
EmptyBytes == <<>>

\* pb::msg::Message number k of the server's stream; head is an Option.
NoHead == [some |-> FALSE, from_uin |-> "", to_uin |-> "", msg_type |-> "",
           msg_seq |-> 0, msg_uid |-> 0]
MessageHead(k) == [some |-> TRUE, from_uin |-> "peer", to_uin |-> "self",
            msg_type |-> "text", msg_seq |-> k, msg_uid |-> k]
Message(k, withHead) == [head |-> IF withHead THEN MessageHead(k) ELSE NoHead, body |-> k]

\* The next n messages of the stream after the first `base`; the last one
\* may come without a head.
NextMessages(base, n, lastHasHead) ==
    [i \in 1..n |-> Message(base + i, i < n \/ lastHasHead)]

\* The decoded responses the server may give to request number i when it
\* has served `base` messages so far. The cookies it issues are new values.
Responses(i, base) ==
    { [msgs |-> NextMessages(base, n, h),
       msg_rsp_type |-> t,
       sync_cookie |-> sc,
       pub_account_cookie |-> pac,
       sync_flag |-> f] :
        n \in 0..MaxMsgs, h \in BOOLEAN, t \in RspTypes,
        sc \in {None, Some(<<i>>)}, pac \in {None, Some(<<i>>)},
        f \in IF i >= MaxIter THEN {SYNC_STOP} ELSE SyncFlags }

NoResp == [msgs |-> <<>>, msg_rsp_type |-> 3, sync_cookie |-> None,
           pub_account_cookie |-> None, sync_flag |-> SYNC_STOP]
NoReq == [sync_flag |-> SYNC_STOP]
NoAck == [items |-> <<>>, status |-> "none"]
NoRet == [kind |-> "none", value |-> <<>>]

\* Lines 181-188: the pb::MessageItem built from a message's head.
MessageItem(m) ==
    [from_uin |-> m.head.from_uin, to_uin |-> m.head.to_uin,
     msg_type |-> m.head.msg_type, msg_seq |-> m.head.msg_seq,
     msg_uid |-> m.head.msg_uid]

\* Lines 177-190: the items of a response's messages, in order.
Items(ms) == [i \in 1..Len(ms) |-> MessageItem(ms[i])]

\* Lines 165-166: the loop's locals.
SyncStart ==
    /\ sync_pc = "idle"
    /\ sync_flag' = SYNC_START
    /\ msgs' = <<>>
    /\ sync_pc' = "loop"
    /\ UNCHANGED <<resp, ret, sync_cookie, pub_account_cookie, req, nreq, ack, served>>

\* Lines 168 and 145-152: sync_message sends the request carrying sync_flag
\* (its timestamp is the wall clock and plays no part in the loop).
SyncRequest ==
    /\ sync_pc = "loop"
    /\ req' = [sync_flag |-> sync_flag]
    /\ nreq' = nreq + 1
    /\ ack' = NoAck
    /\ sync_pc' = "sync_wait"
    /\ UNCHANGED <<sync_flag, msgs, resp, ret, sync_cookie, pub_account_cookie, served>>

\* Lines 152-157 and 169: the reply arrives and decodes to one of the
\* responses the server may give.
SyncResponse ==
    /\ sync_pc = "sync_wait"
    /\ \E r \in Responses(nreq, Len(served)) :
          /\ resp' = r
          /\ served' = served \o r.msgs
    /\ sync_pc' = "delete"
    /\ UNCHANGED <<sync_flag, msgs, ret, sync_cookie, pub_account_cookie, req, nreq, ack>>

\* Line 227: the function returns Ok(msgs).
Return(ms) ==
    /\ ret' = [kind |-> "Ok", value |-> ms]
    /\ sync_pc' = "returned"

\* Lines 170-173: sync_message failed (send_and_wait or decoding); break.
SyncRequestFail ==
    /\ sync_pc = "sync_wait"
    /\ Return(msgs)
    /\ UNCHANGED <<sync_flag, msgs, resp, sync_cookie, pub_account_cookie, req,
                   nreq, ack, served>>

\* Lines 175-192 and 134-140: build the items (head.unwrap() panics on a
\* message without a head) and send the delete_message request.
DeleteRequest ==
    /\ sync_pc = "delete"
    /\ IF \A i \in 1..Len(resp.msgs) : resp.msgs[i].head.some
       THEN /\ ack' = [items |-> Items(resp.msgs), status |-> "sent"]
            /\ sync_pc' = "delete_wait"
       ELSE /\ ack' = ack
            /\ sync_pc' = "panicked"
    /\ UNCHANGED <<sync_flag, msgs, resp, ret, sync_cookie, pub_account_cookie,
                   req, nreq, served>>

\* Variant: the current response's messages are kept on the failure path.
AfterDeleteFailInclusive(acc, r) == acc \o r.msgs

\* What the loop returns when delete_message failed (lines 193-196, 227):
\* the accumulator as it is, the response r not appended.
AfterDeleteFail(acc, r) == acc

\* Variant: the cookies are taken from the response before the outcome of
\* delete_message is looked at.
DeleteFailAfterCursor ==
    /\ sync_pc = "delete_wait"
    /\ ack' = [ack EXCEPT !.status = "failed"]
    /\ ret' = [kind |-> "Ok", value |-> msgs]
    /\ sync_pc' = "returned"
    /\ sync_cookie' = IF resp.sync_cookie.some THEN resp.sync_cookie.value
                       ELSE sync_cookie
    /\ pub_account_cookie' = IF resp.pub_account_cookie.some
                              THEN resp.pub_account_cookie.value
                              ELSE pub_account_cookie
    /\ UNCHANGED <<sync_flag, msgs, resp, req, nreq, served>>

\* Lines 193-196: delete_message failed; break.
DeleteFail ==
    /\ sync_pc = "delete_wait"
    /\ ack' = [ack EXCEPT !.status = "failed"]
    /\ Return(AfterDeleteFail(msgs, resp))
    /\ UNCHANGED <<sync_flag, msgs, resp, sync_cookie, pub_account_cookie, req,
                   nreq, served>>

\* Lines 140-141 and 175: delete_message succeeded.
DeleteOk ==
    /\ sync_pc = "delete_wait"
    /\ ack' = [ack EXCEPT !.status = "ok"]
    /\ sync_pc' = "cursor"
    /\ UNCHANGED <<sync_flag, msgs, resp, ret, sync_cookie, pub_account_cookie,
                   req, nreq, served>>

\* Lines 197-220: the stored sync_cookie after the match on msg_rsp_type.
NewSyncCookie(r, old) ==
    IF r.msg_rsp_type \in {0, 1} /\ r.sync_cookie.some
    THEN r.sync_cookie.value
    ELSE old

\* Variant: the arm for tag 1 also takes the pub_account_cookie.
NewPubAccountCookieOnTag1(r, old) ==
    IF r.msg_rsp_type \in {0, 1, 2} /\ r.pub_account_cookie.some
    THEN r.pub_account_cookie.value
    ELSE old

\* Lines 197-220: the stored pub_account_cookie after the match.
NewPubAccountCookie(r, old) ==
    IF r.msg_rsp_type \in {0, 2} /\ r.pub_account_cookie.some
    THEN r.pub_account_cookie.value
    ELSE old

\* Variant: the response's messages are put in front of the accumulator.
ExtendInFront(acc, ms) == ms \o acc

\* Line 221: msgs.extend(resp.msgs).
Extend(acc, ms) == acc \o ms

\* Line 223: whether the loop ends.
LoopEnds(flag) == flag = SYNC_STOP

\* Lines 197-227: update the cookies, extend the accumulator, take the
\* response's sync_flag and either return or loop.
UpdateCursor ==
    /\ sync_pc = "cursor"
    /\ sync_cookie' = NewSyncCookie(resp, sync_cookie)
    /\ pub_account_cookie' = NewPubAccountCookie(resp, pub_account_cookie)
    /\ msgs' = Extend(msgs, resp.msgs)
    /\ sync_flag' = resp.sync_flag
    /\ IF LoopEnds(sync_flag')
       THEN Return(msgs')
       ELSE /\ sync_pc' = "loop"
            /\ ret' = ret
    /\ UNCHANGED <<resp, req, nreq, ack, served>>

\* ------------------------------------------------------------- send(pkt)
\* Result<(), RQError> of a completed send.
OkUnit == [kind |-> "Ok", value |-> NoPkt]

\* The error the map_err closure of send produces (line 103).
SendError == Err("Other")

\* Packets the application hands to send.
SendPackets == Requests \cup HeartbeatPackets

\* Lines 100-103, Ok branch: the encoded frame is placed on the outbound
\* channel and send returns Ok(()).
SendOk(c, p) ==
    /\ out_open
    /\ Len(out_pkt) < MaxOut
    /\ out_pkt' = Append(out_pkt, encode_packet(p))
    /\ send_result' = [send_result EXCEPT ![c] = OkUnit]
    /\ UNCHANGED <<packet_promises, pc, pkt, chan, result, out_open, inbound>>

\* Lines 100-103, Err branch: the outbound channel is closed; the frame is
\* discarded and the mapped error returned.
SendFail(c, p) ==
    /\ ~out_open
    /\ send_result' = [send_result EXCEPT ![c] = SendError]
    /\ UNCHANGED <<packet_promises, pc, pkt, chan, result, out_pkt, out_open, inbound>>

\* ------------------------------------------------- wait_packet(name, delay)
\* Whether wait w still holds the receiving half of its oneshot channel.
WaiterAlive(w) == wpc[w] = "waiting"

\* Lines 132-138: create the oneshot channel and insert its sender under
\* the name; a sender already stored under the name is replaced and dropped.
WaitRegister(w, name) ==
    /\ wpc[w] = "start"
    /\ wname' = [wname EXCEPT ![w] = name]
    /\ wchan' = IF name \in DOMAIN packet_waiters /\ packet_waiters[name] # w
                THEN DropSender([wchan EXCEPT ![w] = ChanEmpty], packet_waiters[name])
                ELSE [wchan EXCEPT ![w] = ChanEmpty]
    /\ packet_waiters' = MapInsert(packet_waiters, name, w)
    /\ wpc' = [wpc EXCEPT ![w] = "waiting"]
    /\ UNCHANGED wresult

\* Lines 139-140: the receiver yields a packet before the timeout.
WaitReceive(w) ==
    /\ wpc[w] = "waiting"
    /\ wchan[w].state = "sent"
    /\ wresult' = [wresult EXCEPT ![w] = Ok(wchan[w].value)]
    /\ wpc' = [wpc EXCEPT ![w] = "done"]
    /\ UNCHANGED <<packet_waiters, wname, wchan>>

\* Lines 139-140: the receiver yields RecvError (its sender was dropped)
\* and i.unwrap() panics.
WaitPanic(w) ==
    /\ wpc[w] = "waiting"
    /\ wchan[w].state = "closed"
    /\ wpc' = [wpc EXCEPT ![w] = "panicked"]
    /\ UNCHANGED <<packet_waiters, wname, wchan, wresult>>

\* Lines 139, 141: the delay elapses with nothing sent; the receiver is
\* dropped with the timeout future.
WaitTimeoutElapsed(w) ==
    /\ wpc[w] = "waiting"
    /\ wchan[w].state = "empty"
    /\ wpc' = [wpc EXCEPT ![w] = "timedout"]
    /\ UNCHANGED <<packet_waiters, wname, wchan, wresult>>

\* Lines 142-143: remove whatever is stored under the name and return
\* Timeout.
WaitTimeoutCleanup(w) ==
    /\ wpc[w] = "timedout"
    /\ packet_waiters' = MapRemove(packet_waiters, wname[w])
    /\ wchan' = IF wname[w] \in DOMAIN packet_waiters
                THEN DropSender(wchan, packet_waiters[wname[w]])
                ELSE wchan
    /\ wresult' = [wresult EXCEPT ![w] = Err("Timeout")]
    /\ wpc' = [wpc EXCEPT ![w] = "done"]
    /\ UNCHANGED wname

\* oneshot Sender::send(p) to wait w.
WaiterSend(ch, w, p) ==
    IF WaiterAlive(w) /\ ch[w].state = "empty"
    THEN [ch EXCEPT ![w] = ChanSent(p)]
    ELSE ch

\* The inbound dispatch for named waits: if a sender is stored under the
\* packet's command name it is removed and the packet sent on it;
\* otherwise the packet is dropped.
ResolveWaiter ==
    /\ inbound # NoPkt
    /\ inbound' = NoPkt
    /\ IF inbound.command_name \in DOMAIN packet_waiters
       THEN /\ packet_waiters' = MapRemove(packet_waiters, inbound.command_name)
            /\ wchan' = WaiterSend(wchan, packet_waiters[inbound.command_name], inbound)
       ELSE UNCHANGED <<packet_waiters, wchan>>
    /\ UNCHANGED <<wpc, wname, wresult>>
    /\ UNCHANGED <<packet_promises, pc, pkt, chan, result, out_pkt, out_open>>

\* ------------------------------------------------------ sequence allocators
\* AtomicU16 holds values 0 .. TwoPow16 - 1.
TwoPow16 == 65536
\* AtomicI32 holds values MinI32 .. MaxI32.
MaxI32 == 2147483647
MinI32 == -MaxI32 - 1

\* Initial values given by Client::new.
SeqIdInit == 13877
RequestIdInit == 1921334513
\* The other four counters start at a random value below this bound.
RandomSeqBound == 20000

\* The counters, by the name of the Client field.
Domains == {"seq_id", "request_packet_request_id", "group_seq", "friend_seq",
            "group_data_trans_seq", "highway_apply_up_seq"}

\* AtomicU16::fetch_add(n): the new value, wrapping around on overflow.
fetch_add_u16(v, n) == (v + n) % TwoPow16

\* Variant: the counter stops at its largest value instead of wrapping.
fetch_add_i32_saturating(v, n) == IF v <= MaxI32 - n THEN v + n ELSE MaxI32

\* AtomicI32::fetch_add(n): the new value, wrapping around on overflow.
fetch_add_i32(v, n) ==
    IF v <= MaxI32 - n THEN v + n ELSE MinI32 + ((n - (MaxI32 - v)) - 1)

\* One atomic fetch_add on domain d: the previous value is returned and nv
\* stored.
Allocate(d, nv) ==
    /\ Len(allocated[d]) < MaxAlloc
    /\ allocated' = [allocated EXCEPT ![d] = Append(@, counter[d])]
    /\ counter' = [counter EXCEPT ![d] = nv]
    /\ UNCHANGED origin

next_seq == Allocate("seq_id", fetch_add_u16(counter["seq_id"], 1))

next_packet_seq ==
    Allocate("request_packet_request_id",
             fetch_add_i32(counter["request_packet_request_id"], 2))

next_group_seq == Allocate("group_seq", fetch_add_i32(counter["group_seq"], 2))

next_friend_seq == Allocate("friend_seq", fetch_add_i32(counter["friend_seq"], 2))

next_group_data_trans_seq ==
    Allocate("group_data_trans_seq",
             fetch_add_i32(counter["group_data_trans_seq"], 2))

next_highway_apply_seq ==
    Allocate("highway_apply_up_seq",
             fetch_add_i32(counter["highway_apply_up_seq"], 2))

\* -------------------------------------------------------- token persistence
\* The persisted fields of transport.sig.
SigNames == {"d2", "d2key", "tgt", "srm_token", "t133", "encrypted_a1",
             "out_packet_session_id", "tgtgt_key"}
\* The one persisted field that lives in oicq_codec.
CodecField == "wt_session_ticket_key"
FieldNames == SigNames \cup {CodecField}

\* Variant: gen_token writes tgt before d2key.
GenOrderSwapped ==
    <<"d2", "tgt", "d2key", "srm_token", "t133", "encrypted_a1",
      "wt_session_ticket_key", "out_packet_session_id", "tgtgt_key">>

\* The order in which gen_token writes the fields after uin.
GenOrder ==
    <<"d2", "d2key", "tgt", "srm_token", "t133", "encrypted_a1",
      "wt_session_ticket_key", "out_packet_session_id", "tgtgt_key">>

\* The order in which load_token reads the fields after uin.
LoadOrder ==
    <<"d2", "d2key", "tgt", "srm_token", "t133", "encrypted_a1",
      "wt_session_ticket_key", "out_packet_session_id", "tgtgt_key">>

\* The fields of an order handled before the codec lock is awaited, and
\* those handled from there on.
BeforeCodec(order) ==
    SubSeq(order, 1, (CHOOSE i \in 1..Len(order) : order[i] = CodecField) - 1)
FromCodec(order) ==
    SubSeq(order, CHOOSE i \in 1..Len(order) : order[i] = CodecField, Len(order))

\* The k-th byte of v counted from the least significant, two's complement.
ByteOf(v, k) ==
    IF k = 0 THEN v % 256
    ELSE IF k = 1 THEN (v \div 256) % 256
    ELSE IF k = 2 THEN (v \div 65536) % 256
    ELSE IF k = 3 THEN (v \div 16777216) % 256
    ELSE IF v < 0 THEN 255 ELSE 0

\* BufMut::put_i64(v): eight bytes, big-endian.
put_i64(v) == [i \in 1..8 |-> ByteOf(v, 8 - i)]

\* Buf::get_i64 of the first eight bytes, big-endian, two's complement.  The
\* account numbers of the model fit 32 bits, so a sign-extended value is
\* rebuilt from its four low bytes.
get_i64(b) ==
    LET low == ((b[5] % 128) * 256 + b[6]) * 65536 + b[7] * 256 + b[8]
    IN  IF b[5] >= 128 THEN MinI32 + low ELSE low

\* BinaryWriter::write_bytes_short(data): the length as a big-endian u16,
\* then the bytes.
write_bytes_short(data) ==
    <<(Len(data) \div 256) % 256, Len(data) % 256>> \o data

\* BinaryReader::read_bytes_short: a big-endian u16 length, then that many
\* bytes; ok is FALSE when the buffer is too short (the read panics).
read_bytes_short(b) ==
    IF Len(b) < 2 THEN [ok |-> FALSE, value |-> <<>>, rest |-> b]
    ELSE LET n == b[1] * 256 + b[2]
         IN  IF Len(b) < 2 + n THEN [ok |-> FALSE, value |-> <<>>, rest |-> b]
             ELSE [ok |-> TRUE, value |-> SubSeq(b, 3, 2 + n),
                   rest |-> SubSeq(b, 3 + n, Len(b))]

\* The value gen_token reads for a field.
FieldValue(name) == IF name = CodecField THEN wt_session_ticket_key ELSE sig[name]

\* write_bytes_short of the named fields, one after the other.
RECURSIVE WriteFields(_)
WriteFields(names) ==
    IF names = <<>> THEN <<>>
    ELSE write_bytes_short(FieldValue(Head(names))) \o WriteFields(Tail(names))

\* read_bytes_short for the named fields, one after the other: the values
\* read so far, what is left of the buffer, and whether every read had
\* enough bytes.
RECURSIVE ReadFields(_, _, _)
ReadFields(names, b, got) ==
    IF names = <<>> THEN [ok |-> TRUE, got |-> got, rest |-> b]
    ELSE LET r == read_bytes_short(b)
         IN  IF ~r.ok THEN [ok |-> FALSE, got |-> got, rest |-> b]
             ELSE ReadFields(Tail(names), r.rest,
                             [n \in (DOMAIN got) \cup {Head(names)} |->
                                 IF n = Head(names) THEN r.value ELSE got[n]])

\* The fields after the assignments of load_token have stored what was read.
Stored(old, got) ==
    [n \in DOMAIN old |-> IF n \in DOMAIN got THEN got[n] ELSE old[n]]

\* tokio RwLock: a lock is held by any number of readers or by one writer.
Unlocked == [readers |-> {}, writer |-> "none"]
\* Variant: read access is granted while a writer holds the lock.
CanReadAlways(l) == TRUE
\* RwLock::read().await completes.
CanRead(l) == l.writer = "none"
\* RwLock::write().await completes.
CanWrite(l) == l.writer = "none" /\ l.readers = {}

\* gen_token, lines 175-183: the transport read lock is taken and held to
\* the end of the function; uin and the fields before the codec's are
\* written.
GenBegin ==
    /\ gen_pc = "idle"
    /\ CanRead(transport_lock)
    /\ transport_lock' = [transport_lock EXCEPT !.readers = @ \cup {"gen_token"}]
    /\ token' = put_i64(uin) \o WriteFields(BeforeCodec(GenOrder))
    /\ gen_pc' = "codec"
    /\ UNCHANGED <<uin, sig, wt_session_ticket_key, codec_lock, load_pc, buf,
                   input, initial>>

\* gen_token, lines 184-188: the codec read lock is taken for the one
\* statement that writes wt_session_ticket_key; the remaining fields are
\* written, the token returned and the transport lock released.
GenCodec ==
    /\ gen_pc = "codec"
    /\ CanRead(codec_lock)
    /\ token' = token \o WriteFields(FromCodec(GenOrder))
    /\ transport_lock' = [transport_lock EXCEPT !.readers = @ \ {"gen_token"}]
    /\ gen_pc' = "done"
    /\ UNCHANGED <<uin, sig, wt_session_ticket_key, codec_lock, load_pc, buf,
                   input, initial>>

\* load_token(t), lines 190-198: the transport write lock is taken and held
\* to the end of the function; uin and the fields before the codec's are
\* read from the buffer and stored.
LoadBegin(t) ==
    /\ load_pc = "idle"
    /\ CanWrite(transport_lock)
    /\ input' = t
    /\ IF Len(t) < 8
       THEN /\ load_pc' = "panicked"
            /\ transport_lock' = transport_lock
            /\ UNCHANGED <<uin, sig, buf>>
       ELSE LET r == ReadFields(BeforeCodec(LoadOrder), SubSeq(t, 9, Len(t)), <<>>)
            IN  /\ uin' = get_i64(t)
                /\ sig' = Stored(sig, r.got)
                /\ buf' = r.rest
                /\ load_pc' = IF r.ok THEN "codec" ELSE "panicked"
                /\ transport_lock' = IF r.ok
                                     THEN [transport_lock EXCEPT !.writer = "load_token"]
                                     ELSE transport_lock
    /\ UNCHANGED <<wt_session_ticket_key, codec_lock, gen_pc, token, initial>>

\* load_token, lines 199-202: the codec write lock is taken for the one
\* assignment to wt_session_ticket_key; the remaining fields are read and
\* stored and the transport lock released.
LoadCodec ==
    /\ load_pc = "codec"
    /\ CanWrite(codec_lock)
    /\ LET r == ReadFields(FromCodec(LoadOrder), buf, <<>>)
       IN  /\ wt_session_ticket_key' = IF CodecField \in DOMAIN r.got
                                       THEN r.got[CodecField]
                                       ELSE wt_session_ticket_key
           /\ sig' = Stored(sig, r.got)
           /\ buf' = r.rest
           /\ load_pc' = IF r.ok THEN "done" ELSE "panicked"
    /\ transport_lock' = [transport_lock EXCEPT !.writer = "none"]
    /\ UNCHANGED <<uin, codec_lock, gen_pc, token, input, initial>>

\* Account numbers of the model.
Uins == {-1, 0, 305419896}

\* Distinct byte contents per field: k bytes that depend on the field and
\* on which credential set (salt) they belong to.
FieldTag ==
    "d2" :> 1 @@ "d2key" :> 2 @@ "tgt" :> 3 @@ "srm_token" :> 4 @@ "t133" :> 5
    @@ "encrypted_a1" :> 6 @@ "wt_session_ticket_key" :> 7
    @@ "out_packet_session_id" :> 8 @@ "tgtgt_key" :> 9
Blob(n, k, salt) == [i \in 1..k |-> (16 * FieldTag[n] + 8 * salt + i) % 256]

\* Credential fields before anything was stored in them.
FreshSig == [n \in SigNames |-> <<>>]

\* The process ends and a new client is built by Client::new: only the
\* token survives.  uin is 0; the fields hold whatever Transport::new and
\* Codec::default put there, k bytes each, unrelated to the token's.
Restart(k) ==
    /\ gen_pc = "done"
    /\ load_pc = "idle"
    /\ uin' = 0
    /\ sig' = [n \in SigNames |-> Blob(n, k, 1)]
    /\ wt_session_ticket_key' = Blob(CodecField, k, 1)
    /\ UNCHANGED <<transport_lock, codec_lock, gen_pc, token, load_pc, buf,
                   input, initial>>

\* The caller of gen_token calls it again.
GenAgain ==
    /\ gen_pc = "done"
    /\ gen_pc' = "idle"
    /\ token' = <<>>
    /\ UNCHANGED <<uin, sig, wt_session_ticket_key, transport_lock, codec_lock,
                   load_pc, buf, input, initial>>

\* Another task of the client takes the codec lock (packet encoding reads
\* the codec's key material, login writes it) ...
CodecBorrow(exclusive) ==
    /\ "other" \notin codec_lock.readers
    /\ codec_lock.writer # "other"
    /\ IF exclusive
       THEN /\ CanWrite(codec_lock)
            /\ codec_lock' = [codec_lock EXCEPT !.writer = "other"]
       ELSE /\ CanRead(codec_lock)
            /\ codec_lock' = [codec_lock EXCEPT !.readers = @ \cup {"other"}]
    /\ UNCHANGED <<uin, sig, wt_session_ticket_key, transport_lock, gen_pc,
                   token, load_pc, buf, input, initial>>

\* ... and releases it.
CodecReturn ==
    /\ "other" \in codec_lock.readers \/ codec_lock.writer = "other"
    /\ codec_lock' = [readers |-> codec_lock.readers \ {"other"}, writer |-> "none"]
    /\ UNCHANGED <<uin, sig, wt_session_ticket_key, transport_lock, gen_pc,
                   token, load_pc, buf, input, initial>>

\* A credential set: account number u, field n of len[n] bytes.
Credentials(u, len, salt) ==
    [uin |-> u,
     sig |-> [n \in SigNames |-> Blob(n, len[n], salt)],
     wt_session_ticket_key |-> Blob(CodecField, len[CodecField], salt)]

\* The credentials the client holds now.
Current == [uin |-> uin, sig |-> sig, wt_session_ticket_key |-> wt_session_ticket_key]

\* The token gen_token produces for credential set s when nothing
\* interferes: uin, then every field in the documented order.
RECURSIVE TokenFields(_, _)
TokenFields(s, names) ==
    IF names = <<>> THEN <<>>
    ELSE LET v == IF Head(names) = CodecField
                  THEN s.wt_session_ticket_key
                  ELSE s.sig[Head(names)]
         IN  write_bytes_short(v) \o TokenFields(s, Tail(names))
TokenOf(s) == put_i64(s.uin) \o TokenFields(s, LoadOrder)

\* Tokens handed to a load_token that runs beside gen_token: credential
\* sets whose every field differs from the client's own.
RaceInputs ==
    {TokenOf(Credentials(u, [n \in FieldNames |-> k], 1)) :
        u \in Uins, k \in 1..MaxFieldLen}

\* ------------------------------------------------------- specification
InitCorr ==
    /\ packet_promises = <<>>
    /\ pc = [c \in AllCalls |-> "start"]
    /\ pkt = [c \in AllCalls |-> NoPkt]
    /\ chan = [c \in AllCalls |-> ChanEmpty]
    /\ result = [c \in AllCalls |-> NoResult]
    /\ out_pkt = <<>>
    /\ out_open = TRUE
    /\ inbound = NoPkt

InitHb ==
    /\ hb = "idle"
    /\ times = 0
    /\ heartbeat_enabled = FALSE
    /\ online = FALSE
    /\ connected = FALSE

InitSync ==
    /\ sync_pc = "idle"
    /\ sync_flag = SYNC_START
    /\ msgs = <<>>
    /\ resp = NoResp
    /\ ret = NoRet
    /\ sync_cookie = EmptyBytes
    /\ pub_account_cookie = EmptyBytes
    /\ req = NoReq
    /\ nreq = 0
    /\ ack = NoAck
    /\ served = <<>>

InitSend == send_result = [c \in Calls |-> NoResult]

InitWait ==
    /\ packet_waiters = <<>>
    /\ wpc = [w \in Calls |-> "start"]
    /\ wname = [w \in Calls |-> ""]
    /\ wchan = [w \in Calls |-> ChanEmpty]
    /\ wresult = [w \in Calls |-> NoResult]

\* Counter values of a client just built by Client::new (the four random
\* ones at either end of their range) ...
FreshValue ==
    "seq_id" :> SeqIdInit @@ "request_packet_request_id" :> RequestIdInit
    @@ "group_seq" :> 0 @@ "friend_seq" :> RandomSeqBound - 1
    @@ "group_data_trans_seq" :> RandomSeqBound - 1 @@ "highway_apply_up_seq" :> 0

\* ... and of a client whose counters are about to overflow.
LateValue ==
    "seq_id" :> TwoPow16 - 1 @@ "request_packet_request_id" :> MaxI32
    @@ "group_seq" :> MaxI32 - 1 @@ "friend_seq" :> MaxI32
    @@ "group_data_trans_seq" :> MaxI32 - 1 @@ "highway_apply_up_seq" :> MaxI32 - 3

InitSeq ==
    /\ origin = FreshValue
    /\ counter = origin
    /\ allocated = [d \in Domains |-> <<>>]

InitTokenTasks ==
    /\ transport_lock = Unlocked
    /\ codec_lock = Unlocked
    /\ gen_pc = "idle"
    /\ token = <<>>
    /\ load_pc = "idle"
    /\ buf = <<>>
    /\ input = <<>>

InitToken ==
    /\ uin = 0
    /\ sig = FreshSig
    /\ wt_session_ticket_key = <<>>
    /\ initial = [uin |-> 0, sig |-> FreshSig, wt_session_ticket_key |-> <<>>]
    /\ InitTokenTasks

Init == InitCorr /\ InitHb /\ InitSync /\ InitSend /\ InitWait /\ InitSeq /\ InitToken

\* Concurrent application calls of send_and_wait against the transport and
\* the inbound dispatch.
Next ==
    \/ \E c \in Calls, p \in Requests : Register(c, p) /\ UNCHANGED <<hbVars, syncVars, extVars>>
    \/ \E c \in Calls : Enqueue(c) /\ UNCHANGED <<hbVars, syncVars, extVars>>
    \/ \E c \in Calls : EnqueueFail(c) /\ UNCHANGED <<hbVars, syncVars, extVars>>
    \/ \E c \in Calls : SendFailCleanup(c) /\ UNCHANGED <<hbVars, syncVars, extVars>>
    \/ \E c \in Calls : ReceiveReply(c) /\ UNCHANGED <<hbVars, syncVars, extVars>>
    \/ \E c \in Calls : ReceivePanic(c) /\ UNCHANGED <<hbVars, syncVars, extVars>>
    \/ \E c \in Calls : TimeoutElapsed(c) /\ UNCHANGED <<hbVars, syncVars, extVars>>
    \/ \E c \in Calls : TimeoutCleanup(c) /\ UNCHANGED <<hbVars, syncVars, extVars>>
    \/ NetTransmit /\ UNCHANGED <<hbVars, syncVars, extVars>>
    \/ NetClose /\ UNCHANGED <<hbVars, syncVars, extVars>>
    \/ \E p \in Packets : Arrive(p) /\ UNCHANGED <<hbVars, syncVars, extVars>>
    \/ Resolve /\ UNCHANGED <<hbVars, syncVars, extVars>>

Spec == Init /\ [][Next]_vars

\* The heartbeat task, its send_and_wait call, the transport, the inbound
\* dispatch and the rest of the client storing into the connection flags.
NextHeartbeat ==
    \/ HbStart /\ UNCHANGED <<corrVars, syncVars, extVars>>
    \/ HbEnter /\ UNCHANGED <<corrVars, syncVars, extVars>>
    \/ HbExit /\ UNCHANGED <<corrVars, syncVars, extVars>>
    \/ \E p \in HeartbeatPackets : HbSend(p) /\ UNCHANGED <<syncVars, extVars>>
    \/ Enqueue(HB) /\ UNCHANGED <<hbVars, syncVars, extVars>>
    \/ EnqueueFail(HB) /\ UNCHANGED <<hbVars, syncVars, extVars>>
    \/ SendFailCleanup(HB) /\ UNCHANGED <<hbVars, syncVars, extVars>>
    \/ ReceiveReply(HB) /\ UNCHANGED <<hbVars, syncVars, extVars>>
    \/ TimeoutElapsed(HB) /\ UNCHANGED <<hbVars, syncVars, extVars>>
    \/ TimeoutCleanup(HB) /\ UNCHANGED <<hbVars, syncVars, extVars>>
    \/ HbResult /\ UNCHANGED <<syncVars, extVars>>
    \/ HbRegisterOk /\ UNCHANGED <<corrVars, syncVars, extVars>>
    \/ HbRegisterFail /\ UNCHANGED <<corrVars, syncVars, extVars>>
    \/ \E b \in BOOLEAN : SetOnline(b) /\ UNCHANGED <<corrVars, syncVars, extVars>>
    \/ \E b \in BOOLEAN : SetConnected(b) /\ UNCHANGED <<corrVars, syncVars, extVars>>
    \/ NetTransmit /\ UNCHANGED <<hbVars, syncVars, extVars>>
    \/ NetClose /\ UNCHANGED <<hbVars, syncVars, extVars>>
    \/ \E p \in Packets : Arrive(p) /\ UNCHANGED <<hbVars, syncVars, extVars>>
    \/ Resolve /\ UNCHANGED <<hbVars, syncVars, extVars>>

SpecHeartbeat == Init /\ [][NextHeartbeat]_vars

\* The heartbeat task is scheduled and its awaits complete: the sleep ends,
\* the outbound send returns, the wait ends by reply or by its 15 second
\* timer, lock acquisitions succeed, register_client returns; the transport
\* keeps draining the outbound channel.
HeartbeatTaskStep ==
    \/ HbStart /\ UNCHANGED <<corrVars, syncVars, extVars>>
    \/ HbEnter /\ UNCHANGED <<corrVars, syncVars, extVars>>
    \/ HbExit /\ UNCHANGED <<corrVars, syncVars, extVars>>
    \/ \E p \in HeartbeatPackets : HbSend(p) /\ UNCHANGED <<syncVars, extVars>>
    \/ Enqueue(HB) /\ UNCHANGED <<hbVars, syncVars, extVars>>
    \/ EnqueueFail(HB) /\ UNCHANGED <<hbVars, syncVars, extVars>>
    \/ SendFailCleanup(HB) /\ UNCHANGED <<hbVars, syncVars, extVars>>
    \/ ReceiveReply(HB) /\ UNCHANGED <<hbVars, syncVars, extVars>>
    \/ TimeoutElapsed(HB) /\ UNCHANGED <<hbVars, syncVars, extVars>>
    \/ TimeoutCleanup(HB) /\ UNCHANGED <<hbVars, syncVars, extVars>>
    \/ HbResult /\ UNCHANGED <<syncVars, extVars>>
    \/ HbRegisterOk /\ UNCHANGED <<corrVars, syncVars, extVars>>
    \/ HbRegisterFail /\ UNCHANGED <<corrVars, syncVars, extVars>>

SpecHeartbeatFair ==
    /\ SpecHeartbeat
    /\ WF_vars(HeartbeatTaskStep)
    /\ WF_vars(NetTransmit /\ UNCHANGED <<hbVars, syncVars, extVars>>)

\* One call of sync_all_message against a server that scripts its replies.
NextSync ==
    \/ SyncStart /\ UNCHANGED <<corrVars, hbVars, extVars>>
    \/ SyncRequest /\ UNCHANGED <<corrVars, hbVars, extVars>>
    \/ SyncResponse /\ UNCHANGED <<corrVars, hbVars, extVars>>
    \/ SyncRequestFail /\ UNCHANGED <<corrVars, hbVars, extVars>>
    \/ DeleteRequest /\ UNCHANGED <<corrVars, hbVars, extVars>>
    \/ DeleteFail /\ UNCHANGED <<corrVars, hbVars, extVars>>
    \/ DeleteOk /\ UNCHANGED <<corrVars, hbVars, extVars>>
    \/ UpdateCursor /\ UNCHANGED <<corrVars, hbVars, extVars>>

SpecSync == Init /\ [][NextSync]_vars

\* Application tasks calling send, beside calls of send_and_wait, against
\* the same outbound channel.
NextSend ==
    \/ \E c \in Calls, p \in SendPackets :
          SendOk(c, p) /\ UNCHANGED <<hbVars, syncVars, waitVars, seqVars, tokVars>>
    \/ \E c \in Calls, p \in SendPackets :
          SendFail(c, p) /\ UNCHANGED <<hbVars, syncVars, waitVars, seqVars, tokVars>>
    \/ \E c \in Calls, p \in Requests : Register(c, p) /\ UNCHANGED <<hbVars, syncVars, extVars>>
    \/ \E c \in Calls : Enqueue(c) /\ UNCHANGED <<hbVars, syncVars, extVars>>
    \/ \E c \in Calls : EnqueueFail(c) /\ UNCHANGED <<hbVars, syncVars, extVars>>
    \/ \E c \in Calls : SendFailCleanup(c) /\ UNCHANGED <<hbVars, syncVars, extVars>>
    \/ NetTransmit /\ UNCHANGED <<hbVars, syncVars, extVars>>
    \/ NetClose /\ UNCHANGED <<hbVars, syncVars, extVars>>

SpecSend == Init /\ [][NextSend]_vars

\* Concurrent calls of wait_packet against the inbound dispatch.
NextWait ==
    \/ \E w \in Calls, name \in Cmds :
          WaitRegister(w, name)
            /\ UNCHANGED <<corrVars, hbVars, syncVars, sendVars, seqVars, tokVars>>
    \/ \E w \in Calls :
          WaitReceive(w)
            /\ UNCHANGED <<corrVars, hbVars, syncVars, sendVars, seqVars, tokVars>>
    \/ \E w \in Calls :
          WaitPanic(w)
            /\ UNCHANGED <<corrVars, hbVars, syncVars, sendVars, seqVars, tokVars>>
    \/ \E w \in Calls :
          WaitTimeoutElapsed(w)
            /\ UNCHANGED <<corrVars, hbVars, syncVars, sendVars, seqVars, tokVars>>
    \/ \E w \in Calls :
          WaitTimeoutCleanup(w)
            /\ UNCHANGED <<corrVars, hbVars, syncVars, sendVars, seqVars, tokVars>>
    \/ \E p \in Packets : Arrive(p) /\ UNCHANGED <<hbVars, syncVars, extVars>>
    \/ ResolveWaiter /\ UNCHANGED <<hbVars, syncVars, sendVars, seqVars, tokVars>>

SpecWait == Init /\ [][NextWait]_vars

\* Callers of the six allocators, observed from a freshly built client or
\* from one whose counter has reached the end of its range.
InitSeqAny ==
    /\ \E late \in [Domains -> BOOLEAN] :
          origin = [d \in Domains |-> IF late[d] THEN LateValue[d] ELSE FreshValue[d]]
    /\ counter = origin
    /\ allocated = [d \in Domains |-> <<>>]

NextSeq ==
    \/ next_seq /\ UNCHANGED <<corrVars, hbVars, syncVars, sendVars, waitVars, tokVars>>
    \/ next_packet_seq /\ UNCHANGED <<corrVars, hbVars, syncVars, sendVars, waitVars, tokVars>>
    \/ next_group_seq /\ UNCHANGED <<corrVars, hbVars, syncVars, sendVars, waitVars, tokVars>>
    \/ next_friend_seq /\ UNCHANGED <<corrVars, hbVars, syncVars, sendVars, waitVars, tokVars>>
    \/ next_group_data_trans_seq
          /\ UNCHANGED <<corrVars, hbVars, syncVars, sendVars, waitVars, tokVars>>
    \/ next_highway_apply_seq
          /\ UNCHANGED <<corrVars, hbVars, syncVars, sendVars, waitVars, tokVars>>

InitAllocators ==
    InitCorr /\ InitHb /\ InitSync /\ InitSend /\ InitWait /\ InitToken /\ InitSeqAny

SpecSeq == InitAllocators /\ [][NextSeq]_vars

\* A client holding any credentials writes its token; the token is loaded
\* back, into the same client or into one built after a restart.
InitTokenAny ==
    /\ \E u \in Uins, len \in [FieldNames -> 0..MaxFieldLen] :
          /\ initial = Credentials(u, len, 0)
          /\ uin = initial.uin
          /\ sig = initial.sig
          /\ wt_session_ticket_key = initial.wt_session_ticket_key
    /\ InitTokenTasks

NextToken ==
    \/ GenBegin /\ UNCHANGED <<corrVars, hbVars, syncVars, sendVars, waitVars, seqVars>>
    \/ GenCodec /\ UNCHANGED <<corrVars, hbVars, syncVars, sendVars, waitVars, seqVars>>
    \/ \E k \in 0..MaxFieldLen :
          Restart(k) /\ UNCHANGED <<corrVars, hbVars, syncVars, sendVars, waitVars, seqVars>>
    \/ /\ gen_pc = "done"
       /\ LoadBegin(token)
       /\ UNCHANGED <<corrVars, hbVars, syncVars, sendVars, waitVars, seqVars>>
    \/ LoadCodec /\ UNCHANGED <<corrVars, hbVars, syncVars, sendVars, waitVars, seqVars>>

InitPersist ==
    InitCorr /\ InitHb /\ InitSync /\ InitSend /\ InitWait /\ InitSeq /\ InitTokenAny

SpecToken == InitPersist /\ [][NextToken]_vars

\* gen_token and a load_token of foreign credentials run side by side,
\* next to another task that uses the codec.
InitTokenRace ==
    /\ \E u \in Uins, k \in 1..MaxFieldLen :
          /\ initial = Credentials(u, [n \in FieldNames |-> k], 0)
          /\ uin = initial.uin
          /\ sig = initial.sig
          /\ wt_session_ticket_key = initial.wt_session_ticket_key
    /\ InitTokenTasks

NextTokenRace ==
    \/ GenBegin /\ UNCHANGED <<corrVars, hbVars, syncVars, sendVars, waitVars, seqVars>>
    \/ GenCodec /\ UNCHANGED <<corrVars, hbVars, syncVars, sendVars, waitVars, seqVars>>
    \/ GenAgain /\ UNCHANGED <<corrVars, hbVars, syncVars, sendVars, waitVars, seqVars>>
    \/ \E t \in RaceInputs :
          LoadBegin(t) /\ UNCHANGED <<corrVars, hbVars, syncVars, sendVars, waitVars, seqVars>>
    \/ LoadCodec /\ UNCHANGED <<corrVars, hbVars, syncVars, sendVars, waitVars, seqVars>>
    \/ \E x \in BOOLEAN :
          CodecBorrow(x) /\ UNCHANGED <<corrVars, hbVars, syncVars, sendVars, waitVars, seqVars>>
    \/ CodecReturn /\ UNCHANGED <<corrVars, hbVars, syncVars, sendVars, waitVars, seqVars>>

InitRace ==
    InitCorr /\ InitHb /\ InitSync /\ InitSend /\ InitWait /\ InitSeq /\ InitTokenRace

SpecTokenRace == InitRace /\ [][NextTokenRace]_vars

\* ====================================================================
\* Properties
\* ====================================================================

\* A step of the inbound dispatch handling the packet it holds.
ResolveStep == inbound # NoPkt /\ inbound' = NoPkt

\* The entry stored under the handled packet's seq is call c's sender.
ResolveHits(c) ==
    /\ ResolveStep
    /\ inbound.seq_id \in DOMAIN packet_promises
    /\ packet_promises[inbound.seq_id] = c

\* C1: for a call whose sender is stored under seq and whose frame was
\* enqueued, a resolve(seq, p) before the timeout puts exactly p in the
\* call's reply channel and leaves no entry under seq; the channel keeps p
\* until the call reads it, and the call returns p itself (or the
\* command-mismatch error of its validation), never another packet.
C1_ResolveDeliversPacket ==
    [][\A c \in Calls :
        /\ (ResolveHits(c) /\ pc[c] = "waiting")
             => /\ chan'[c] = ChanSent(inbound)
                /\ inbound.seq_id = pkt[c].seq_id
                /\ inbound.seq_id \notin DOMAIN packet_promises'
        /\ (pc[c] = "waiting" /\ chan[c].state = "sent")
             => /\ chan'[c] = chan[c]
                /\ pc'[c] \in {"waiting", "done"}
                /\ pc'[c] = "done"
                     => result'[c] \in {Ok(chan[c].value), Err("CommandMismatch")}
      ]_vars

\* C1 witness: a call has returned the packet that was resolved to it and
\* no entry is left under its seq.
C1_Witness ==
    \E c \in Calls :
        /\ pc[c] = "done"
        /\ chan[c].state = "sent"
        /\ result[c] = Ok(chan[c].value)
        /\ pkt[c].seq_id \notin DOMAIN packet_promises

\* C2: a call that waits with nothing resolved to it can leave the wait
\* only through the timeout, and the timeout path returns Timeout with no
\* entry left under the call's seq.
C2_TimeoutReturnsAndCleans ==
    [][\A c \in Calls :
        /\ (pc[c] = "waiting" /\ chan[c].state = "empty" /\ pc'[c] # "waiting")
             => pc'[c] = "timedout"
        /\ (pc[c] = "timedout" /\ pc'[c] # "timedout")
             => /\ pc'[c] = "done"
                /\ result'[c] = Err("Timeout")
                /\ pkt[c].seq_id \notin DOMAIN packet_promises'
      ]_vars

\* C2 witness: a call has returned Timeout, nothing was ever resolved to it,
\* and no entry is stored under its seq.
C2_Witness ==
    \E c \in Calls :
        /\ pc[c] = "done"
        /\ result[c] = Err("Timeout")
        /\ chan[c].state # "sent"
        /\ pkt[c].seq_id \notin DOMAIN packet_promises

\* A call that returned from its wait returned the reply (or the mismatch
\* error of validating it) exactly when a packet reached its channel, and
\* Timeout exactly when none did.
ExactlyOneWins ==
    \A c \in Calls :
        (pc[c] = "done" /\ result[c].kind # "Network")
          => \/ /\ chan[c].state = "sent"
                /\ result[c] \in {Ok(chan[c].value), Err("CommandMismatch")}
             \/ /\ chan[c].state # "sent"
                /\ result[c] = Err("Timeout")

\* A resolve that finds no entry under the packet's seq, or finds the entry
\* of a call whose timeout has already elapsed.
LateOrUnmatchedResolve ==
    /\ ResolveStep
    /\ \/ inbound.seq_id \notin DOMAIN packet_promises
       \/ pc[packet_promises[inbound.seq_id]] = "timedout"

\* C3 as stated: exactly one of reply and Timeout wins, and a late or
\* unmatched resolve changes no state at all.
C3_LateResolveChangesNothing ==
    /\ []ExactlyOneWins
    /\ [][LateOrUnmatchedResolve
            => UNCHANGED <<packet_promises, pc, pkt, chan, result, out_pkt, out_open>>
         ]_vars

\* C3 amended: exactly one of reply and Timeout wins; a resolve for a seq
\* with no entry changes no state; a resolve that arrives after the timeout
\* elapsed but before the timed-out call removed its entry removes that
\* stale entry and changes nothing else: it reaches no waiter and the call
\* still returns Timeout.
C3_LateResolveReachesNoWaiter ==
    /\ []ExactlyOneWins
    /\ [][LateOrUnmatchedResolve
            => /\ UNCHANGED <<pc, pkt, chan, result, out_pkt, out_open>>
               /\ packet_promises' = MapRemove(packet_promises, inbound.seq_id)
               /\ inbound.seq_id \notin DOMAIN packet_promises
                    => UNCHANGED packet_promises
         ]_vars

\* C3 witness: a call returned Timeout although a packet with its seq was
\* handled after its timeout elapsed (its entry is gone, the channel holds
\* nothing), while another call returned a reply.
C3_Witness ==
    \E c, d \in Calls :
        /\ pc[c] = "timedout"
        /\ pkt[c].seq_id \notin DOMAIN packet_promises
        /\ chan[c].state = "empty"
        /\ pc[d] = "done"
        /\ result[d].kind = "Ok"

\* The messages of every response but the current one.
ServedBefore == SubSeq(served, 1, Len(served) - Len(resp.msgs))

\* C4 as stated: when delete_message fails in iteration k the loop returns
\* Ok with the messages of iterations 1..k, those of iteration k included.
C4_FailureReturnsThroughK ==
    (sync_pc = "returned" /\ ack.status = "failed")
      => ret = [kind |-> "Ok", value |-> served]

\* C4 amended: when delete_message fails in iteration k the loop returns Ok
\* with the messages of iterations 1..k-1 only; the messages of iteration k
\* are not in the result.
C4_FailureReturnsBeforeK ==
    (sync_pc = "returned" /\ ack.status = "failed")
      => ret = [kind |-> "Ok", value |-> ServedBefore]

\* C4 witness: delete_message failed in a later iteration whose response
\* carried messages, after earlier iterations had accumulated some.
C4_Witness ==
    /\ sync_pc = "returned"
    /\ ack.status = "failed"
    /\ nreq >= 2
    /\ Len(resp.msgs) > 0
    /\ Len(ret.value) > 0
    /\ ret.value = ServedBefore

\* C5: a cookie is changed only after the delete_message request built from
\* the current response's heads was sent and succeeded; an iteration whose
\* sync request or acknowledgment fails changes neither cookie.
C5_AckBeforeCursor ==
    [][/\ (sync_cookie' # sync_cookie \/ pub_account_cookie' # pub_account_cookie)
            => /\ ack.status = "ok"
               /\ ack.items = Items(resp.msgs)
               /\ Len(ack.items) = Len(resp.msgs)
       /\ (sync_pc \in {"sync_wait", "delete_wait"} /\ sync_pc' = "returned")
            => UNCHANGED <<sync_cookie, pub_account_cookie>>
       /\ (sync_pc = "delete" /\ sync_pc' = "delete_wait")
            => /\ ack' = [items |-> [i \in 1..Len(resp.msgs) |->
                            [from_uin |-> resp.msgs[i].head.from_uin,
                             to_uin |-> resp.msgs[i].head.to_uin,
                             msg_type |-> resp.msgs[i].head.msg_type,
                             msg_seq |-> resp.msgs[i].head.msg_seq,
                             msg_uid |-> resp.msgs[i].head.msg_uid]],
                          status |-> "sent"]
               /\ UNCHANGED <<sync_cookie, pub_account_cookie>>
      ]_vars

\* C5 witness: a cookie of the current response is stored and that
\* response's acknowledgment, with one item per message, has succeeded.
C5_Witness ==
    /\ ack.status = "ok"
    /\ Len(ack.items) > 0
    /\ resp.sync_cookie.some
    /\ sync_cookie = resp.sync_cookie.value

\* The stored value after a response's optional cookie replaced it.
Replaced(opt, old) == IF opt.some THEN opt.value ELSE old

\* A step that processes the acknowledged response.
CursorStep == sync_pc = "cursor" /\ sync_pc' # "cursor"

\* C6: for an acknowledged response, tag 0 replaces each cookie present in
\* the response, tag 1 only sync_cookie, tag 2 only pub_account_cookie, any
\* other tag neither; an absent cookie leaves the stored value as it is.
C6_CursorByTag ==
    [][CursorStep =>
         /\ resp.msg_rsp_type = 0 =>
              /\ sync_cookie' = Replaced(resp.sync_cookie, sync_cookie)
              /\ pub_account_cookie' = Replaced(resp.pub_account_cookie, pub_account_cookie)
         /\ resp.msg_rsp_type = 1 =>
              /\ sync_cookie' = Replaced(resp.sync_cookie, sync_cookie)
              /\ pub_account_cookie' = pub_account_cookie
         /\ resp.msg_rsp_type = 2 =>
              /\ sync_cookie' = sync_cookie
              /\ pub_account_cookie' = Replaced(resp.pub_account_cookie, pub_account_cookie)
         /\ resp.msg_rsp_type \notin {0, 1, 2} =>
              UNCHANGED <<sync_cookie, pub_account_cookie>>
         /\ ~resp.sync_cookie.some => sync_cookie' = sync_cookie
         /\ ~resp.pub_account_cookie.some => pub_account_cookie' = pub_account_cookie
      ]_vars

\* C6 witness: a tag 1 response carrying both cookies was processed: the
\* stored sync_cookie is the response's and the stored pub_account_cookie
\* is an older, non-empty value.
C6_Witness ==
    /\ sync_pc \in {"loop", "returned"}
    /\ ack.status = "ok"
    /\ resp.msg_rsp_type = 1
    /\ resp.sync_cookie.some
    /\ resp.pub_account_cookie.some
    /\ sync_cookie = resp.sync_cookie.value
    /\ pub_account_cookie # EmptyBytes
    /\ pub_account_cookie # resp.pub_account_cookie.value

\* C7: when every response is acknowledged and the last one is the first to
\* declare Stop, the loop returns after it with the concatenation of all
\* responses' messages in order and sends nothing more; a response that
\* does not declare Stop is followed by another request; the first request
\* carries Start and each later one the previous response's sync_flag.
C7_StopEndsWithConcatenation ==
    /\ []((sync_pc = "returned" /\ ack.status = "ok")
            => /\ ret = [kind |-> "Ok", value |-> served]
               /\ resp.sync_flag = SYNC_STOP)
    /\ [][/\ CursorStep =>
               /\ sync_pc' = IF resp.sync_flag = SYNC_STOP THEN "returned" ELSE "loop"
               /\ msgs' = msgs \o resp.msgs
               /\ UNCHANGED <<req, nreq, served>>
          /\ sync_pc = "returned" => UNCHANGED <<sync_pc, ret, req, nreq, ack, served>>
          /\ nreq' # nreq =>
               /\ nreq' = nreq + 1
               /\ req'.sync_flag = IF nreq = 0 THEN SYNC_START ELSE resp.sync_flag
         ]_vars

\* C7 witness: the loop returned after at least two acknowledged responses
\* that each carried messages, the last one declaring Stop.
C7_Witness ==
    /\ sync_pc = "returned"
    /\ ack.status = "ok"
    /\ nreq >= 2
    /\ Len(resp.msgs) > 0
    /\ Len(served) > Len(resp.msgs)
    /\ ret.value = served

\* The step in which do_heartbeat handles what send_and_wait returned.
HeartbeatReturned == hb = "call" /\ hb' # "call"

\* C8: each successful heartbeat adds one to the counter and re-registration
\* starts exactly on the success that makes it 7; a successful
\* re-registration sets the counter to 0; a failed heartbeat leaves the
\* counter as it is and starts no re-registration.
C8_ReRegisterOnSeventh ==
    /\ [](/\ times \in 0..7
          /\ hb = "register" => times = 7
          /\ times = 7 => hb \in {"register", "stopped"})
    /\ [][/\ (HeartbeatReturned /\ result[HB].kind = "Ok")
               => /\ times' = times + 1
                  /\ hb' = "register" <=> times = 6
          /\ (HeartbeatReturned /\ result[HB].kind # "Ok")
               => /\ times' = times
                  /\ hb' # "register"
          /\ (hb = "register" /\ hb' = "check") => times' = 0
          /\ (hb = "register" /\ hb' # "register") => hb' \in {"check", "stopped"}
         ]_vars

\* C8 witness: re-registration is in progress after the seventh success.
C8_Witness == hb = "register" /\ times = 7 /\ result[HB].kind = "Ok"

\* C9 as stated: once online is false the loop sends no further heartbeat
\* and starts no re-registration.
C9_NoHeartbeatOnceOffline ==
    [][~online =>
         /\ ~(hb = "sleep" /\ hb' = "call")
         /\ ~(hb # "register" /\ hb' = "register")
      ]_vars

\* C9 amended: online is read only by the loop condition. When it is false
\* there the loop leaves for Stopped with heartbeat_enabled false and sends
\* nothing more; when it is true the loop body runs to its end whatever
\* happens to online meanwhile; and if online stays false the loop does
\* reach Stopped.
C9_ExitAtLoopCondition ==
    /\ [](hb = "stopped" => ~heartbeat_enabled)
    /\ [][/\ (hb = "check" /\ hb' # "check")
               => IF online
                  THEN hb' = "sleep" /\ heartbeat_enabled' = heartbeat_enabled
                  ELSE hb' = "stopped" /\ ~heartbeat_enabled'
          /\ (hb # "stopped" /\ hb' = "stopped")
               => (hb = "check" /\ ~online) \/ hb = "register"
          /\ hb = "stopped" => (hb' = "stopped" /\ pc'[HB] = pc[HB])
         ]_vars
    /\ (<>[](~online)) => <>[](hb = "stopped")

\* C9 witness: the loop ran, found online false at its condition and is
\* Stopped.
C9_Witness ==
    /\ hb = "stopped"
    /\ ~online
    /\ ~heartbeat_enabled
    /\ times \in 1..6

\* C10: a failed heartbeat sends the loop back to its condition with the
\* flags and the counter untouched, and from there, while online, to the
\* next sleep; no step of the heartbeat's send_and_wait touches the flags;
\* while online is true the loop becomes Stopped only out of a failed
\* re-registration.
C10_FailureKeepsLooping ==
    [][/\ (HeartbeatReturned /\ result[HB].kind # "Ok")
            => /\ hb' = "check"
               /\ UNCHANGED <<heartbeat_enabled, online, connected, times>>
       /\ (hb = "check" /\ online /\ hb' # "check") => hb' = "sleep"
       /\ pc'[HB] # pc[HB] => UNCHANGED <<heartbeat_enabled, online, connected>>
       /\ (hb # "stopped" /\ hb' = "stopped" /\ online) => hb = "register"
      ]_vars

\* C10 witness: the loop is sleeping again, online and enabled, after a
\* heartbeat that timed out.
C10_Witness ==
    /\ hb = "sleep"
    /\ result[HB] = Err("Timeout")
    /\ online
    /\ heartbeat_enabled

\* A send_and_wait call between its insert and its return.
InFlight(c) == pc[c] \in {"registered", "sendfailed", "waiting", "timedout"}

\* C11: a call that finds the outbound channel closed goes to its failure
\* branch without ever waiting for a reply, and leaves that branch by
\* returning Network with no entry under its seq and no entry of its own
\* anywhere in packet_promises.
C11_SendFailureUnregisters ==
    [][\A c \in Calls :
        /\ (pc[c] = "registered" /\ ~out_open /\ pc'[c] # "registered")
             => pc'[c] = "sendfailed"
        /\ (pc[c] = "sendfailed" /\ pc'[c] # "sendfailed")
             => /\ pc'[c] = "done"
                /\ result'[c] = Err("Network")
                /\ pkt[c].seq_id \notin DOMAIN packet_promises'
                /\ \A s \in DOMAIN packet_promises' : packet_promises'[s] # c
      ]_vars

\* C11 witness: a call returned Network on the closed channel, no reply
\* ever reached its channel, and nothing is stored under its seq.
C11_Witness ==
    \E c \in Calls :
        /\ pc[c] = "done"
        /\ result[c] = Err("Network")
        /\ ~out_open
        /\ chan[c].state # "sent"
        /\ pkt[c].seq_id \notin DOMAIN packet_promises

\* C13: a call that leaves its wait with a delivered reply returns the
\* command-mismatch error when the reply's command name differs from the
\* one recorded at registration and the reply itself when the names match;
\* either way the entry that carried the reply is no longer the call's.
C13_ReplyValidated ==
    [][\A c \in Calls :
        (pc[c] = "waiting" /\ chan[c].state = "sent" /\ pc'[c] # "waiting")
          => /\ pc'[c] = "done"
             /\ chan[c].value.command_name # pkt[c].command_name
                  => result'[c] = Err("CommandMismatch")
             /\ chan[c].value.command_name = pkt[c].command_name
                  => result'[c] = Ok(chan[c].value)
             /\ \A s \in DOMAIN packet_promises' : packet_promises'[s] # c
      ]_vars

\* C13 witness: one call returned the mismatch error for a delivered reply
\* of another command, another call returned its matching reply, and
\* neither has an entry left.
C13_Witness ==
    \E c, d \in Calls :
        /\ pc[c] = "done"
        /\ chan[c].state = "sent"
        /\ chan[c].value.command_name # pkt[c].command_name
        /\ result[c] = Err("CommandMismatch")
        /\ pc[d] = "done"
        /\ result[d] = Ok(chan[d].value)
        /\ packet_promises = <<>>

\* C14: every entry of packet_promises is stored under the seq of a call
\* that is in flight, and the map is empty whenever no call is in flight.
C14_NoLeakedEntries ==
    /\ \A s \in DOMAIN packet_promises :
          /\ InFlight(packet_promises[s])
          /\ pkt[packet_promises[s]].seq_id = s
    /\ (\A c \in Calls : ~InFlight(c)) => packet_promises = <<>>

\* C14 witness: every call has returned, one of them by Timeout and one by
\* send failure, and the map is empty.
C14_Witness ==
    /\ \A c \in Calls : pc[c] = "done"
    /\ \E c, d \in Calls :
          /\ result[c] = Err("Timeout")
          /\ result[d] = Err("Network")
    /\ packet_promises = <<>>

\* The step in which call c removes the entry under its seq on its timeout
\* or send-failure path.
CleanupStep(c) == pc[c] \in {"sendfailed", "timedout"} /\ pc'[c] = "done"

\* C18: no call aborts because its reply slot was overwritten or dropped
\* without a value, and the cleanup of one call leaves the entries of the
\* other in-flight calls in the map.
C18_CollidingCallsUnaffected ==
    /\ [](\A c \in Calls : pc[c] # "panicked")
    /\ [][\A c \in Calls :
            CleanupStep(c)
              => \A s \in DOMAIN packet_promises :
                    (packet_promises[s] # c /\ InFlight(packet_promises[s]))
                      => /\ s \in DOMAIN packet_promises'
                         /\ packet_promises'[s] = packet_promises[s]
         ]_vars

\* C19: a call whose frame is on its way and to which nothing has been
\* delivered has its sender stored under its seq, every frame on the
\* outbound channel is the frame of a call that has passed its insert, and
\* a packet handled for such a call's seq is delivered to a waiter instead
\* of being dropped.
C19_ReplyFindsEntry ==
    /\ [](\A c \in Calls :
            (pc[c] = "waiting" /\ chan[c].state = "empty")
              => /\ pkt[c].seq_id \in DOMAIN packet_promises
                 /\ packet_promises[pkt[c].seq_id] = c)
    /\ [](\A i \in 1..Len(out_pkt) :
            \E c \in Calls :
                /\ pc[c] \notin {"start", "registered", "sendfailed"}
                /\ encode_packet(pkt[c]) = out_pkt[i])
    /\ [][(/\ ResolveStep
           /\ \E c \in Calls : /\ pc[c] = "waiting"
                               /\ chan[c].state = "empty"
                               /\ pkt[c].seq_id = inbound.seq_id)
            => \E c \in Calls : /\ ResolveHits(c)
                                /\ pc[c] = "waiting"
                                /\ chan'[c] = ChanSent(inbound)
         ]_vars

\* C19 witness: a call's frame has left the outbound channel and the reply
\* with its seq sits in the call's channel, the entry consumed.
C19_Witness ==
    \E c \in Calls :
        /\ pc[c] = "waiting"
        /\ out_open
        /\ out_pkt = <<>>
        /\ chan[c].state = "sent"
        /\ chan[c].value.seq_id = pkt[c].seq_id
        /\ pkt[c].seq_id \notin DOMAIN packet_promises

\* A send that finds the outbound channel closed.
FailedSend(c) == ~out_open /\ send_result'[c] # send_result[c]

\* C12: a send that cannot enqueue its frame because the outbound channel
\* is closed returns the Network error kind and makes no further attempt:
\* nothing is put on the channel.
C12_SendFailureIsNetwork ==
    [][\A c \in Calls :
          FailedSend(c)
            => /\ send_result'[c] = Err("Network")
               /\ UNCHANGED <<out_pkt, out_open>>
      ]_vars

\* C15: no wait_packet call aborts; a call that completed returned the
\* packet resolved to it or Timeout, exactly one of the two; and
\* packet_waiters holds no entry of a completed call.
C15_NamedWaitSingleResolution ==
    /\ \A w \in Calls : wpc[w] # "panicked"
    /\ \A w \in Calls :
          wpc[w] = "done"
            => /\ \/ wchan[w].state = "sent" /\ wresult[w] = Ok(wchan[w].value)
                  \/ wchan[w].state # "sent" /\ wresult[w] = Err("Timeout")
               /\ \A n \in DOMAIN packet_waiters : packet_waiters[n] # w

\* The value the claim gives for the k-th allocation (k from 0) of a
\* counter that started at b: b + k * stride reduced to the counter's width.
Expected(d, b, k) ==
    IF d = "seq_id"
    THEN (b + k) % TwoPow16
    ELSE IF b > MaxI32 - 2 * k
         THEN MinI32 + ((b - (MaxI32 - 2 * k)) - 1)
         ELSE b + 2 * k

\* C17: in every sequence domain the k-th allocation returned
\* init + k * stride reduced to the counter's width (stride 1 and 16 bits
\* for seq_id, stride 2 and 32 bits for the others), the first one the
\* initial value, no value was returned twice, and the counter holds the
\* value the next allocation is due to return.
C17_AllocationsFollowStride ==
    \A d \in Domains :
        /\ \A k \in 1..Len(allocated[d]) :
              allocated[d][k] = Expected(d, origin[d], k - 1)
        /\ \A i, j \in 1..Len(allocated[d]) :
              i # j => allocated[d][i] # allocated[d][j]
        /\ counter[d] = Expected(d, origin[d], Len(allocated[d]))
        /\ (d = "seq_id") => counter[d] \in 0..(TwoPow16 - 1)

\* C17 witness: the 16-bit counter and a 32-bit counter have both wrapped
\* around, interleaved with allocations of a fresh counter.
C17_Witness ==
    /\ origin["seq_id"] = TwoPow16 - 1
    /\ allocated["seq_id"] = <<TwoPow16 - 1, 0>>
    /\ origin["request_packet_request_id"] = MaxI32
    /\ allocated["request_packet_request_id"] = <<MaxI32, MinI32 + 1>>
    /\ allocated["group_seq"] = <<0, 2>>

\* C16: once load_token has read the token gen_token produced, uin, every
\* signature field and wt_session_ticket_key hold exactly the values they
\* had when gen_token ran: load_token reads exactly the bytes gen_token
\* wrote, field by field in the order they were written, and none is left.
C16_TokenRoundTrip ==
    /\ load_pc # "panicked"
    /\ load_pc = "done" => /\ input = token
                           /\ Current = initial
                           /\ buf = <<>>

\* C16 witness: the token of a client with a negative account number and
\* no empty field has been loaded and every field holds its value of
\* gen_token time.
C16_Witness ==
    /\ load_pc = "done"
    /\ initial.uin < 0
    /\ \A n \in SigNames : Len(initial.sig[n]) = MaxFieldLen
    /\ Len(initial.wt_session_ticket_key) = MaxFieldLen
    /\ Current = initial
    /\ token = TokenOf(initial)

\* Each of the two operations waits for a lock the other holds.
GenWaitsForLoad ==
    \/ gen_pc = "idle" /\ transport_lock.writer = "load_token"
    \/ gen_pc = "codec" /\ codec_lock.writer = "load_token"
LoadWaitsForGen ==
    \/ load_pc = "idle" /\ "gen_token" \in transport_lock.readers
    \/ load_pc = "codec" /\ "gen_token" \in codec_lock.readers

\* Some lock acquisition that is pending can complete, or the lock it needs
\* is held by the other user of the codec, which releases it.
SomeoneCanMove ==
    \/ gen_pc = "idle" /\ CanRead(transport_lock)
    \/ gen_pc = "codec" /\ CanRead(codec_lock)
    \/ load_pc = "idle" /\ CanWrite(transport_lock)
    \/ load_pc = "codec" /\ CanWrite(codec_lock)
    \/ "other" \in codec_lock.readers
    \/ codec_lock.writer = "other"

\* C20: a token gen_token returned while a load_token ran beside it is the
\* token of the credentials before that load_token or the very bytes that
\* load_token stored, never a mixture; while the load holds the transport
\* lock gen_token holds none; and gen_token and load_token never wait for
\* each other in a cycle.
C20_TokenNeverTorn ==
    /\ gen_pc = "done" => \/ token = TokenOf(initial)
                          \/ load_pc \in {"codec", "done"} /\ token = input
    /\ ~(transport_lock.writer = "load_token" /\ "gen_token" \in transport_lock.readers)
    /\ ~(GenWaitsForLoad /\ LoadWaitsForGen)
    /\ (gen_pc \in {"idle", "codec"} \/ load_pc \in {"idle", "codec"}) => SomeoneCanMove

\* C20 witness: gen_token returned the token of the old credentials, whole,
\* and the load_token running beside it has stored the new ones.
C20_Witness ==
    /\ gen_pc = "done"
    /\ load_pc = "done"
    /\ token = TokenOf(initial)
    /\ Current # initial
    /\ TokenOf(Current) = input

====
